---- MODULE Spec2Model ----
(***************************************************************************)
(* Model of advanced-vector/vector.h: RawMemory<T> (an owner of a raw      *)
(* block) and Vector<T> (the container that tracks which slots of the     *)
(* block hold live elements).                                              *)
(*                                                                         *)
(* The heap is a map from block addresses to blocks; a block is the        *)
(* sequence of its slots; a slot is Raw (no object lives there) or the     *)
(* value of the live element.  Every public operation of Vector is one     *)
(* action.  An operation runs on a "machine" record m that carries the     *)
(* heap, the Vector objects and the fault injection of the call:           *)
(*   m.fuel    how many fallible element operations succeed before one     *)
(*             throws (NoFail: none throws),                               *)
(*   m.na      the address operator new returns (AllocFail: bad_alloc),    *)
(*   m.thrown  the exception in flight ("none", "bad_alloc", "element"),   *)
(*   m.touched whether the call has constructed, assigned or destroyed an  *)
(*             element,                                                    *)
(*   m.charged the number of fallible element operations the call has run, *)
(*   m.allocs  the number of blocks the call has asked operator new for,   *)
(*   m.bad     the lifetime violations seen so far.                        *)
(***************************************************************************)
EXTENDS Integers, Sequences, FiniteSets, TLC

\* ---- bounds of the model: the largest capacity and element value with one
\* Vector object, and with two; the number of block addresses
MaxCap == 4
MaxVal == 2
PairCap == 2
PairVal == 1
NumBlocks == 3

\* ---- values
nullptr == 0
Raw == -1
DefaultValue == 0
MovedFrom == DefaultValue
\* fault injection: no element operation throws (more fuel than a call can
\* use); operator new throws
NoFail == 2 * MaxCap + 4
AllocFail == nullptr

Addrs == 1..NumBlocks
Vecs == {"a", "b"}
Temp == "temp"

VARIABLES heap, vec, T, faults, pair, bad, last, appendLog

vars == <<heap, vec, T, faults, pair, bad, last, appendLog>>

\* ---- RawMemory<T>
EmptyRawMemory == [buffer_ |-> nullptr, capacity_ |-> 0]

NoVector == [alive |-> FALSE, data_ |-> EmptyRawMemory, size_ |-> 0]

EmptyVector == [alive |-> TRUE, data_ |-> EmptyRawMemory, size_ |-> 0]

\* operator new fails
AllocThrows(m, n) == n # 0 /\ m.na = AllocFail

ThrowBadAlloc(m) == [m EXCEPT !.thrown = "bad_alloc", !.allocs = @ + 1]

\* RawMemory::Allocate: the heap after the allocation
Allocate(m, n) ==
    IF n = 0 THEN m
    ELSE [m EXCEPT !.heap[m.na] = [i \in 1..n |-> Raw], !.allocs = @ + 1]

\* RawMemory(capacity): the object constructed
RawMemoryOf(m, n) ==
    [buffer_ |-> IF n = 0 THEN nullptr ELSE m.na, capacity_ |-> n]

\* RawMemory::Deallocate: operator delete, which knows nothing of elements
Deallocate(m, buf) ==
    IF buf = nullptr THEN m
    ELSE IF m.heap[buf] = <<>> THEN [m EXCEPT !.bad = @ \cup {"double_free"}]
    ELSE [m EXCEPT !.heap[buf] = <<>>,
                   !.bad = IF \E i \in 1..Len(m.heap[buf]) : m.heap[buf][i] # Raw
                           THEN @ \cup {"leak"} ELSE @]

\* ~RawMemory
RawMemoryDtor(m, rm) == Deallocate(m, rm.buffer_)

\* ---- element operations at slot i (0-based) of block a
Slot(m, a, i) == m.heap[a][i + 1]

\* the value an element operation reads from a slot; a slot without a live
\* object yields garbage, and the read is a lifetime violation
Read(m, a, i) == IF Slot(m, a, i) = Raw THEN DefaultValue ELSE Slot(m, a, i)

MarkRead(m, a, i) ==
    IF Slot(m, a, i) = Raw THEN [m EXCEPT !.bad = @ \cup {"read_dead"}] ELSE m

WillFail(m, fallible) == fallible /\ m.fuel = 0

Charge(m, fallible) ==
    IF ~fallible THEN m
    ELSE [m EXCEPT !.charged = @ + 1, !.fuel = IF @ = NoFail THEN @ ELSE @ - 1]

Throw(m) == [m EXCEPT !.thrown = "element"]

\* placement new: new (a + i) T(x)
ConstructAt(m, a, i, x) ==
    [m EXCEPT !.heap[a][i + 1] = x,
              !.touched = TRUE,
              !.bad = IF Slot(m, a, i) # Raw THEN @ \cup {"construct_over_live"} ELSE @]

\* a[i] = x
AssignAt(m, a, i, x) ==
    [m EXCEPT !.heap[a][i + 1] = x,
              !.touched = TRUE,
              !.bad = IF Slot(m, a, i) = Raw THEN @ \cup {"assign_dead"} ELSE @]

\* the source of a move is left in the moved-from state
MovedFromAt(m, a, i) ==
    IF Slot(m, a, i) = Raw THEN m ELSE [m EXCEPT !.heap[a][i + 1] = MovedFrom]

\* std::destroy_at(a + i)
DestroyAt(m, a, i) ==
    IF Slot(m, a, i) = Raw
    THEN [m EXCEPT !.touched = TRUE, !.bad = @ \cup {"destroy_dead"}]
    ELSE [m EXCEPT !.touched = TRUE, !.heap[a][i + 1] = Raw]

RECURSIVE destroy_n(_, _, _, _)
destroy_n(m, a, i, n) ==
    IF n = 0 THEN m ELSE destroy_n(DestroyAt(m, a, i), a, i + 1, n - 1)

\* ---- the range algorithms of <memory> and <algorithm>, element by element
RECURSIVE UninitValueConstructFrom(_, _, _, _, _)
UninitValueConstructFrom(m, a, i, n, k) ==
    IF k = n THEN m
    ELSE IF WillFail(m, TRUE) THEN Throw(destroy_n(m, a, i, k))
    ELSE UninitValueConstructFrom(
             ConstructAt(Charge(m, TRUE), a, i + k, DefaultValue), a, i, n, k + 1)

uninitialized_value_construct_n(m, a, i, n) == UninitValueConstructFrom(m, a, i, n, 0)

RECURSIVE UninitCopyFrom(_, _, _, _, _, _, _)
UninitCopyFrom(m, fa, fi, n, ta, ti, k) ==
    IF k = n THEN m
    ELSE IF WillFail(m, TRUE) THEN Throw(destroy_n(m, ta, ti, k))
    ELSE UninitCopyFrom(
             ConstructAt(Charge(MarkRead(m, fa, fi + k), TRUE), ta, ti + k,
                         Read(m, fa, fi + k)),
             fa, fi, n, ta, ti, k + 1)

uninitialized_copy_n(m, fa, fi, n, ta, ti) == UninitCopyFrom(m, fa, fi, n, ta, ti, 0)

RECURSIVE UninitMoveFrom(_, _, _, _, _, _, _)
UninitMoveFrom(m, fa, fi, n, ta, ti, k) ==
    IF k = n THEN m
    ELSE IF WillFail(m, ~T.nothrow_move) THEN Throw(destroy_n(m, ta, ti, k))
    ELSE UninitMoveFrom(
             MovedFromAt(
                 ConstructAt(Charge(MarkRead(m, fa, fi + k), ~T.nothrow_move),
                             ta, ti + k, Read(m, fa, fi + k)),
                 fa, fi + k),
             fa, fi, n, ta, ti, k + 1)

uninitialized_move_n(m, fa, fi, n, ta, ti) == UninitMoveFrom(m, fa, fi, n, ta, ti, 0)

\* std::copy_n: copy assignment, first to last; a throw stops it where it is
RECURSIVE CopyFrom(_, _, _, _, _, _, _)
CopyFrom(m, fa, fi, n, ta, ti, k) ==
    IF k = n THEN m
    ELSE IF WillFail(m, TRUE) THEN Throw(m)
    ELSE CopyFrom(
             AssignAt(Charge(MarkRead(m, fa, fi + k), TRUE), ta, ti + k,
                      Read(m, fa, fi + k)),
             fa, fi, n, ta, ti, k + 1)

copy_n(m, fa, fi, n, ta, ti) == CopyFrom(m, fa, fi, n, ta, ti, 0)

\* *(a + to) = std::move(*(a + from))
MoveAssignAt(m, a, from, to) ==
    MovedFromAt(
        AssignAt(Charge(MarkRead(m, a, from), ~T.nothrow_move), a, to, Read(m, a, from)),
        a, from)

\* std::move(first, last, d_first): move assignment, first to last
RECURSIVE move(_, _, _, _, _)
move(m, a, first, lst, dfirst) ==
    IF first >= lst THEN m
    ELSE IF WillFail(m, ~T.nothrow_move) THEN Throw(m)
    ELSE move(MoveAssignAt(m, a, first, dfirst), a, first + 1, lst, dfirst + 1)

\* std::move_backward(first, last, d_last): move assignment, last to first
RECURSIVE move_backward(_, _, _, _, _)
move_backward(m, a, first, lst, dlast) ==
    IF first >= lst THEN m
    ELSE IF WillFail(m, ~T.nothrow_move) THEN Throw(m)
    ELSE move_backward(MoveAssignAt(m, a, lst - 1, dlast - 1), a, first, lst - 1, dlast - 1)

\* ---- Vector<T>
Buf(m, v) == m.vec[v].data_.buffer_

Cap(m, v) == m.vec[v].data_.capacity_

Size(m, v) == m.vec[v].size_

Min(x, y) == IF x < y THEN x ELSE y

\* explicit Vector(size_t size)
VectorSized(m, v, size) ==
    IF AllocThrows(m, size) THEN ThrowBadAlloc(m)
    ELSE LET data == RawMemoryOf(m, size)
             m1 == uninitialized_value_construct_n(Allocate(m, size), data.buffer_, 0, size)
         IN IF m1.thrown # "none" THEN RawMemoryDtor(m1, data)
            ELSE [m1 EXCEPT !.vec[v] = [alive |-> TRUE, data_ |-> data, size_ |-> size]]

\* mutant: the copy shares the block of the source
VectorCopy_Shallow(m, v, other) ==
    [m EXCEPT !.vec[v] = [alive |-> TRUE, data_ |-> m.vec[other].data_,
                          size_ |-> Size(m, other)]]

\* Vector(const Vector& other)
VectorCopy(m, v, other) ==
    LET size == Size(m, other) IN
    IF AllocThrows(m, size) THEN ThrowBadAlloc(m)
    ELSE LET data == RawMemoryOf(m, size)
             m1 == uninitialized_copy_n(Allocate(m, size), Buf(m, other), 0, size,
                                        data.buffer_, 0)
         IN IF m1.thrown # "none" THEN RawMemoryDtor(m1, data)
            ELSE [m1 EXCEPT !.vec[v] = [alive |-> TRUE, data_ |-> data, size_ |-> size]]

\* mutant: the blocks are swapped, the sizes are not
Swap_DataOnly(m, v, other) ==
    [m EXCEPT !.vec = [m.vec EXCEPT ![v] = [@ EXCEPT !.data_ = m.vec[other].data_],
                                    ![other] = [@ EXCEPT !.data_ = m.vec[v].data_]]]

\* Vector::Swap, with RawMemory::Swap
Swap(m, v, other) ==
    [m EXCEPT !.vec = [m.vec EXCEPT ![v] = [@ EXCEPT !.data_ = m.vec[other].data_,
                                                     !.size_ = m.vec[other].size_],
                                    ![other] = [@ EXCEPT !.data_ = m.vec[v].data_,
                                                         !.size_ = m.vec[v].size_]]]

\* mutant: the new Vector takes the block and the source keeps it
VectorMove_KeepsSource(m, v, other) == [m EXCEPT !.vec[v] = m.vec[other]]

\* Vector(Vector&& other)
VectorMove(m, v, other) == Swap([m EXCEPT !.vec[v] = EmptyVector], v, other)

\* ~Vector, then the destructor of its member data_
VectorDtor(m, v) ==
    LET m1 == destroy_n(m, Buf(m, v), 0, Size(m, v))
    IN [RawMemoryDtor(m1, m.vec[v].data_) EXCEPT !.vec[v] = NoVector]

\* mutant: when the source does not fit, the destination is emptied before the
\* temporary copy is built
CopyAssign_ClearsFirst(m, v, rhs) ==
    IF v = rhs THEN m
    ELSE IF Size(m, rhs) > Cap(m, v)
    THEN LET m0 == [destroy_n(m, Buf(m, v), 0, Size(m, v)) EXCEPT !.vec[v].size_ = 0]
             m1 == VectorCopy(m0, Temp, rhs)
         IN IF m1.thrown # "none" THEN m1
            ELSE VectorDtor(Swap(m1, v, Temp), Temp)
    ELSE LET k == Min(Size(m, rhs), Size(m, v))
             m1 == copy_n(m, Buf(m, rhs), 0, k, Buf(m, v), 0)
         IN IF m1.thrown # "none" THEN m1
            ELSE LET m2 == uninitialized_copy_n(m1, Buf(m, rhs), k, Size(m, rhs) - k,
                                                Buf(m, v), k)
                 IN IF m2.thrown # "none" THEN m2
                    ELSE LET m3 == IF Size(m, rhs) < Size(m, v)
                                   THEN destroy_n(m2, Buf(m, v), Size(m, rhs),
                                                  Size(m, v) - Size(m, rhs))
                                   ELSE m2
                         IN [m3 EXCEPT !.vec[v].size_ = Size(m, rhs)]

\* mutant: in place, size_ is set before the elements are copied
CopyAssign_SizeFirst(m, v, rhs) ==
    IF v = rhs THEN m
    ELSE IF Size(m, rhs) > Cap(m, v)
    THEN LET m1 == VectorCopy(m, Temp, rhs)
         IN IF m1.thrown # "none" THEN m1
            ELSE VectorDtor(Swap(m1, v, Temp), Temp)
    ELSE LET k == Min(Size(m, rhs), Size(m, v))
             m0 == [m EXCEPT !.vec[v].size_ = Size(m, rhs)]
             m1 == copy_n(m0, Buf(m, rhs), 0, k, Buf(m, v), 0)
         IN IF m1.thrown # "none" THEN m1
            ELSE LET m2 == uninitialized_copy_n(m1, Buf(m, rhs), k, Size(m, rhs) - k,
                                                Buf(m, v), k)
                 IN IF m2.thrown # "none" THEN m2
                    ELSE IF Size(m, rhs) < Size(m, v)
                    THEN destroy_n(m2, Buf(m, v), Size(m, rhs), Size(m, v) - Size(m, rhs))
                    ELSE m2

\* Vector& operator=(const Vector& rhs)
CopyAssign(m, v, rhs) ==
    IF v = rhs THEN m
    ELSE IF Size(m, rhs) > Cap(m, v)
    THEN LET m1 == VectorCopy(m, Temp, rhs)
         IN IF m1.thrown # "none" THEN m1
            ELSE VectorDtor(Swap(m1, v, Temp), Temp)
    ELSE LET k == Min(Size(m, rhs), Size(m, v))
             m1 == copy_n(m, Buf(m, rhs), 0, k, Buf(m, v), 0)
         IN IF m1.thrown # "none" THEN m1
            ELSE LET m2 == uninitialized_copy_n(m1, Buf(m, rhs), k, Size(m, rhs) - k,
                                                Buf(m, v), k)
                 IN IF m2.thrown # "none" THEN m2
                    ELSE LET m3 == IF Size(m, rhs) < Size(m, v)
                                   THEN destroy_n(m2, Buf(m, v), Size(m, rhs),
                                                  Size(m, v) - Size(m, rhs))
                                   ELSE m2
                         IN [m3 EXCEPT !.vec[v].size_ = Size(m, rhs)]

\* mutant: the destination takes what the source holds and the source is left
\* empty
MoveAssign_Steals(m, v, rhs) ==
    IF v = rhs THEN m
    ELSE [m EXCEPT !.vec = [m.vec EXCEPT ![v] = m.vec[rhs], ![rhs] = EmptyVector]]

\* Vector& operator=(Vector&& rhs)
MoveAssign(m, v, rhs) == IF v = rhs THEN m ELSE Swap(m, v, rhs)

\* mutant: the relocation moves, whatever T is
MoveItemsInNewMemory_AlwaysMove(m, fa, fi, ta, ti, count) ==
    LET m1 == uninitialized_move_n(m, fa, fi, count, ta, ti)
    IN IF m1.thrown # "none" THEN m1 ELSE destroy_n(m1, fa, fi, count)

\* Vector::MoveItemsInNewMemory
MoveItemsInNewMemory(m, fa, fi, ta, ti, count) ==
    LET m1 == IF T.nothrow_move \/ ~T.copyable
              THEN uninitialized_move_n(m, fa, fi, count, ta, ti)
              ELSE uninitialized_copy_n(m, fa, fi, count, ta, ti)
    IN IF m1.thrown # "none" THEN m1 ELSE destroy_n(m1, fa, fi, count)

\* mutant: the elements are destroyed before the new block is allocated
Reserve_DestroysFirst(m, v, new_capacity) ==
    IF new_capacity <= Cap(m, v) THEN m
    ELSE LET m0 == [destroy_n(m, Buf(m, v), 0, Size(m, v)) EXCEPT !.vec[v].size_ = 0]
         IN IF AllocThrows(m0, new_capacity) THEN ThrowBadAlloc(m0)
            ELSE RawMemoryDtor(
                     [Allocate(m0, new_capacity)
                         EXCEPT !.vec[v].data_ = RawMemoryOf(m0, new_capacity)],
                     m.vec[v].data_)

\* mutant: the new block has one slot more than asked for
Reserve_RoundsUp(m, v, new_capacity) ==
    IF new_capacity <= Cap(m, v) THEN m
    ELSE IF AllocThrows(m, new_capacity + 1) THEN ThrowBadAlloc(m)
    ELSE LET new_data == RawMemoryOf(m, new_capacity + 1)
             m1 == MoveItemsInNewMemory(Allocate(m, new_capacity + 1), Buf(m, v), 0,
                                        new_data.buffer_, 0, Size(m, v))
         IN IF m1.thrown # "none" THEN RawMemoryDtor(m1, new_data)
            ELSE RawMemoryDtor([m1 EXCEPT !.vec[v].data_ = new_data], m.vec[v].data_)

\* Vector::Reserve
Reserve(m, v, new_capacity) ==
    IF new_capacity <= Cap(m, v) THEN m
    ELSE IF AllocThrows(m, new_capacity) THEN ThrowBadAlloc(m)
    ELSE LET new_data == RawMemoryOf(m, new_capacity)
             m1 == MoveItemsInNewMemory(Allocate(m, new_capacity), Buf(m, v), 0,
                                        new_data.buffer_, 0, Size(m, v))
         IN IF m1.thrown # "none" THEN RawMemoryDtor(m1, new_data)
            ELSE RawMemoryDtor([m1 EXCEPT !.vec[v].data_ = new_data], m.vec[v].data_)

\* mutant: a shrinking Resize does not destroy the trailing elements
Resize_KeepsTail(m, v, new_size) ==
    LET m2 == IF new_size > Size(m, v)
              THEN LET r == IF new_size > Cap(m, v) THEN Reserve(m, v, new_size) ELSE m
                   IN IF r.thrown # "none" THEN r
                      ELSE uninitialized_value_construct_n(r, Buf(r, v), Size(m, v),
                                                           new_size - Size(m, v))
              ELSE m
    IN IF m2.thrown # "none" THEN m2 ELSE [m2 EXCEPT !.vec[v].size_ = new_size]

\* mutant: a growing Resize value-constructs from begin(), not from end()
Resize_ConstructsFromStart(m, v, new_size) ==
    LET m1 == IF new_size < Size(m, v)
              THEN destroy_n(m, Buf(m, v), new_size, Size(m, v) - new_size)
              ELSE m
        m2 == IF new_size > Size(m, v)
              THEN LET r == IF new_size > Cap(m, v) THEN Reserve(m1, v, new_size) ELSE m1
                   IN IF r.thrown # "none" THEN r
                      ELSE uninitialized_value_construct_n(r, Buf(r, v), 0,
                                                           new_size - Size(m, v))
              ELSE m1
    IN IF m2.thrown # "none" THEN m2 ELSE [m2 EXCEPT !.vec[v].size_ = new_size]

\* Vector::Resize
Resize(m, v, new_size) ==
    LET m1 == IF new_size < Size(m, v)
              THEN destroy_n(m, Buf(m, v), new_size, Size(m, v) - new_size)
              ELSE m
        m2 == IF new_size > Size(m, v)
              THEN LET r == IF new_size > Cap(m, v) THEN Reserve(m1, v, new_size) ELSE m1
                   IN IF r.thrown # "none" THEN r
                      ELSE uninitialized_value_construct_n(r, Buf(r, v), Size(m, v),
                                                           new_size - Size(m, v))
              ELSE m1
    IN IF m2.thrown # "none" THEN m2 ELSE [m2 EXCEPT !.vec[v].size_ = new_size]

\* mutant: the block is released when the last element is popped
PopBack_ReleasesWhenEmpty(m, v) ==
    LET m1 == DestroyAt([m EXCEPT !.vec[v].size_ = @ - 1], Buf(m, v), Size(m, v) - 1)
    IN IF Size(m, v) # 1 THEN m1
       ELSE [RawMemoryDtor(m1, m.vec[v].data_) EXCEPT !.vec[v].data_ = EmptyRawMemory]

\* Vector::PopBack
PopBack(m, v) ==
    DestroyAt([m EXCEPT !.vec[v].size_ = @ - 1], Buf(m, v), Size(m, v) - 1)

\* The argument of Emplace/Insert/PushBack: an object of the caller that holds
\* the value val, or a reference to the element val of the Vector itself
\* (Insert(pos, v[j])). T(args...) reads a reference when it runs.
ByValue(x) == [ref |-> FALSE, val |-> x]

ByRef(j) == [ref |-> TRUE, val |-> j]

ArgValue(m, v, args) == IF args.ref THEN Read(m, Buf(m, v), args.val) ELSE args.val

\* mutant: the new block has room for one element more, not twice the size
InsertWithReallocate_GrowsByOne(m, v, index, args, fallible) ==
    LET n == Size(m, v) + 1 IN
    IF AllocThrows(m, n) THEN ThrowBadAlloc(m)
    ELSE LET new_data == RawMemoryOf(m, n)
             m1 == Allocate(m, n)
         IN IF WillFail(m1, fallible) THEN RawMemoryDtor(Throw(m1), new_data)
            ELSE LET m2 == ConstructAt(Charge(m1, fallible), new_data.buffer_, index,
                                       ArgValue(m1, v, args))
                     m3 == MoveItemsInNewMemory(m2, Buf(m, v), 0, new_data.buffer_, 0, index)
                 IN IF m3.thrown # "none" THEN RawMemoryDtor(m3, new_data)
                    ELSE LET m4 == MoveItemsInNewMemory(m3, Buf(m, v), index,
                                                        new_data.buffer_, index + 1,
                                                        Size(m, v) - index)
                         IN IF m4.thrown # "none" THEN RawMemoryDtor(m4, new_data)
                            ELSE RawMemoryDtor([m4 EXCEPT !.vec[v].data_ = new_data],
                                               m.vec[v].data_)

\* Vector::InsertWithReallocate; fallible: whether T(args...) can throw
InsertWithReallocate(m, v, index, args, fallible) ==
    LET n == IF Size(m, v) = 0 THEN 1 ELSE Size(m, v) * 2 IN
    IF AllocThrows(m, n) THEN ThrowBadAlloc(m)
    ELSE LET new_data == RawMemoryOf(m, n)
             m1 == Allocate(m, n)
         IN IF WillFail(m1, fallible) THEN RawMemoryDtor(Throw(m1), new_data)
            ELSE LET m2 == ConstructAt(Charge(m1, fallible), new_data.buffer_, index,
                                       ArgValue(m1, v, args))
                     m3 == MoveItemsInNewMemory(m2, Buf(m, v), 0, new_data.buffer_, 0, index)
                 IN IF m3.thrown # "none" THEN RawMemoryDtor(m3, new_data)
                    ELSE LET m4 == MoveItemsInNewMemory(m3, Buf(m, v), index,
                                                        new_data.buffer_, index + 1,
                                                        Size(m, v) - index)
                         IN IF m4.thrown # "none" THEN RawMemoryDtor(m4, new_data)
                            ELSE RawMemoryDtor([m4 EXCEPT !.vec[v].data_ = new_data],
                                               m.vec[v].data_)

\* mutant: the elements are shifted right first to last (std::move for
\* std::move_backward)
InsertInPlace_ForwardShift(m, v, index, args, fallible) ==
    IF index = Size(m, v)
    THEN IF WillFail(m, fallible) THEN Throw(m)
         ELSE ConstructAt(Charge(m, fallible), Buf(m, v), Size(m, v), ArgValue(m, v, args))
    ELSE IF WillFail(m, fallible) THEN Throw(m)
    ELSE LET temp == ArgValue(m, v, args)
             m1 == Charge(m, fallible)
         IN IF WillFail(m1, ~T.nothrow_move) THEN Throw(m1)
            ELSE LET m2 == MovedFromAt(
                               ConstructAt(
                                   Charge(MarkRead(m1, Buf(m, v), Size(m, v) - 1),
                                          ~T.nothrow_move),
                                   Buf(m, v), Size(m, v), Read(m1, Buf(m, v), Size(m, v) - 1)),
                               Buf(m, v), Size(m, v) - 1)
                     m3 == move(m2, Buf(m, v), index, Size(m, v) - 1, index + 1)
                 IN IF m3.thrown # "none" THEN m3
                    ELSE IF WillFail(m3, ~T.nothrow_move) THEN Throw(m3)
                    ELSE AssignAt(Charge(m3, ~T.nothrow_move), Buf(m, v), index, temp)

\* mutant: no local temp; the argument is read when it is assigned to the slot,
\* after the elements have been shifted
InsertInPlace_NoTemp(m, v, index, args, fallible) ==
    IF index = Size(m, v)
    THEN IF WillFail(m, fallible) THEN Throw(m)
         ELSE ConstructAt(Charge(m, fallible), Buf(m, v), Size(m, v), ArgValue(m, v, args))
    ELSE IF WillFail(m, ~T.nothrow_move) THEN Throw(m)
    ELSE LET m2 == MovedFromAt(
                       ConstructAt(
                           Charge(MarkRead(m, Buf(m, v), Size(m, v) - 1), ~T.nothrow_move),
                           Buf(m, v), Size(m, v), Read(m, Buf(m, v), Size(m, v) - 1)),
                       Buf(m, v), Size(m, v) - 1)
             m3 == move_backward(m2, Buf(m, v), index, Size(m, v) - 1, Size(m, v))
         IN IF m3.thrown # "none" THEN m3
            ELSE IF WillFail(m3, fallible) THEN Throw(m3)
            ELSE AssignAt(Charge(m3, fallible), Buf(m, v), index, ArgValue(m3, v, args))

\* Vector::InsertInPlace; temp is a local T, destroyed when the function is left
InsertInPlace(m, v, index, args, fallible) ==
    IF index = Size(m, v)
    THEN IF WillFail(m, fallible) THEN Throw(m)
         ELSE ConstructAt(Charge(m, fallible), Buf(m, v), Size(m, v), ArgValue(m, v, args))
    ELSE IF WillFail(m, fallible) THEN Throw(m)
    ELSE LET temp == ArgValue(m, v, args)
             m1 == Charge(m, fallible)
         IN IF WillFail(m1, ~T.nothrow_move) THEN Throw(m1)
            ELSE LET m2 == MovedFromAt(
                               ConstructAt(
                                   Charge(MarkRead(m1, Buf(m, v), Size(m, v) - 1),
                                          ~T.nothrow_move),
                                   Buf(m, v), Size(m, v), Read(m1, Buf(m, v), Size(m, v) - 1)),
                               Buf(m, v), Size(m, v) - 1)
                     m3 == move_backward(m2, Buf(m, v), index, Size(m, v) - 1, Size(m, v))
                 IN IF m3.thrown # "none" THEN m3
                    ELSE IF WillFail(m3, ~T.nothrow_move) THEN Throw(m3)
                    ELSE AssignAt(Charge(m3, ~T.nothrow_move), Buf(m, v), index, temp)

\* mutant: an insert at end() reallocates
Emplace_ReallocAtEnd(m, v, index, args, fallible) ==
    LET m1 == IF Size(m, v) = Cap(m, v) \/ index = Size(m, v)
              THEN InsertWithReallocate(m, v, index, args, fallible)
              ELSE InsertInPlace(m, v, index, args, fallible)
    IN IF m1.thrown # "none" THEN m1 ELSE [m1 EXCEPT !.vec[v].size_ = @ + 1]

\* Vector::Emplace
Emplace(m, v, index, args, fallible) ==
    LET m1 == IF Size(m, v) = Cap(m, v) \/ index = Cap(m, v)
              THEN InsertWithReallocate(m, v, index, args, fallible)
              ELSE InsertInPlace(m, v, index, args, fallible)
    IN IF m1.thrown # "none" THEN m1 ELSE [m1 EXCEPT !.vec[v].size_ = @ + 1]

\* mutant: the element is emplaced at begin()
EmplaceBack_AtFront(m, v, args, fallible) == Emplace(m, v, 0, args, fallible)

\* Vector::EmplaceBack
EmplaceBack(m, v, args, fallible) == Emplace(m, v, Size(m, v), args, fallible)

\* Vector::PushBack(const T&) and Vector::PushBack(T&&)
PushBackCopy(m, v, value) == EmplaceBack(m, v, value, TRUE)

PushBackMove(m, v, value) == EmplaceBack(m, v, value, ~T.nothrow_move)

\* Vector::Insert(const_iterator, const T&) and Vector::Insert(const_iterator, T&&)
InsertCopy(m, v, index, value) == Emplace(m, v, index, value, TRUE)

InsertMove(m, v, index, value) == Emplace(m, v, index, value, ~T.nothrow_move)

\* mutant: the shift stops one element short of end()
Erase_StopsShort(m, v, index) ==
    LET m1 == move(m, Buf(m, v), index + 1, Size(m, v) - 1, index)
    IN IF m1.thrown # "none" THEN m1
       ELSE [destroy_n(m1, Buf(m, v), Size(m, v) - 1, 1) EXCEPT !.vec[v].size_ = @ - 1]

\* Vector::Erase
Erase(m, v, index) ==
    LET m1 == move(m, Buf(m, v), index + 1, Size(m, v), index)
    IN IF m1.thrown # "none" THEN m1
       ELSE [destroy_n(m1, Buf(m, v), Size(m, v) - 1, 1) EXCEPT !.vec[v].size_ = @ - 1]

\* ---- the program: calls of the public operations on the Vector objects.
\* With pair = FALSE the program has one Vector, a; with pair = TRUE it has
\* two, a and b, and smaller bounds.
Objects == IF pair THEN Vecs ELSE {"a"}

CapLimit == IF pair THEN PairCap ELSE MaxCap

Values == 0..(IF pair THEN PairVal ELSE MaxVal)

\* The element types T: whether T has a copy constructor, and whether its move
\* constructor and move assignment are noexcept.
Types == [copyable : BOOLEAN, nothrow_move : BOOLEAN]

\* last is the record of the call that has just returned, which the next step
\* of the program drops
NoCall ==
    [op |-> "none", v |-> "a", w |-> "a", index |-> 0, x |-> 0, n |-> 0,
     path |-> "none", outcome |-> "none", touched |-> FALSE, ref |-> FALSE, j |-> 0]

InitCommon ==
    /\ heap = [a \in Addrs |-> <<>>]
    /\ vec = [v \in Vecs \cup {Temp} |-> NoVector]
    /\ T \in Types
    /\ bad = {}
    /\ last = NoCall
    /\ appendLog = [v \in Vecs |-> [valid |-> FALSE, vals |-> <<>>]]

\* one Vector, of any T, with faults
Init == InitCommon /\ pair = FALSE /\ faults = TRUE

\* two Vectors, which the program copies: T has a copy constructor
InitPair == InitCommon /\ pair = TRUE /\ faults = TRUE /\ T.copyable

\* either program, when no element operation throws and operator new succeeds
InitOk == InitCommon /\ pair \in BOOLEAN /\ faults = FALSE /\ (pair => T.copyable)

\* slots [0, size_) of v's block hold live elements, the others none
WellFormed(v) ==
    /\ vec[v].size_ <= vec[v].data_.capacity_
    /\ vec[v].data_.capacity_ = 0 <=> vec[v].data_.buffer_ = nullptr
    /\ vec[v].data_.capacity_ > 0 =>
           /\ Len(heap[vec[v].data_.buffer_]) = vec[v].data_.capacity_
           /\ \A i \in 1..vec[v].data_.capacity_ :
                  heap[vec[v].data_.buffer_][i] # Raw <=> i <= vec[v].size_

\* A call is made on sound objects only; an object that a failed call has left
\* unsound is still destroyed by its destructor.
Idle == last = NoCall /\ bad = {}

Usable == Idle /\ \A v \in Vecs : WellFormed(v)

\* operator new: the lowest free address
FreeAddrs == {a \in Addrs : heap[a] = <<>>}

NextAddr == CHOOSE a \in FreeAddrs : \A b \in FreeAddrs : a <= b

Machine(fuel, na) ==
    [heap |-> heap, vec |-> vec, bad |-> bad, fuel |-> fuel, na |-> na,
     thrown |-> "none", touched |-> FALSE, charged |-> 0, allocs |-> 0]

Result(m) ==
    [heap |-> m.heap, vec |-> m.vec, bad |-> m.bad, thrown |-> m.thrown,
     touched |-> m.touched]

\* every way the call Op can end: normally, with any one of its fallible
\* element operations throwing, or with operator new throwing
Run(Op(_)) ==
    LET ok == Op(Machine(NoFail, NextAddr))
        points == 0..(ok.charged - 1)
    IN IF ~faults THEN {Result(ok)}
       ELSE {Result(ok)}
            \cup {Result(Op(Machine(f, NextAddr))) : f \in points}
            \cup (IF ok.allocs = 0 THEN {}
                  ELSE {Result(Op(Machine(f, AllocFail))) : f \in points \cup {NoFail}})

\* PushBack and EmplaceBack are calls of Emplace at end(), and Insert is a call
\* of Emplace: last records them as the Emplace they make. An append is a
\* call of PushBack or EmplaceBack.
AppendCall == "append"

InsertCall == "insert"

Movers == {"VectorMove", "MoveAssign", "Swap"}

\* the values appended to u since its default construction, while nothing but
\* successful appends was called on u (kept by the program with one Vector)
NextLog(op, kind, v, w, x, r) ==
    IF pair THEN appendLog ELSE
    [u \in Vecs |->
        IF u = v /\ op = "Vector" THEN [valid |-> TRUE, vals |-> <<>>]
        ELSE IF u = v /\ kind = AppendCall /\ r.thrown = "none" /\ appendLog[u].valid
        THEN [valid |-> TRUE, vals |-> Append(appendLog[u].vals, x)]
        ELSE IF u = v \/ (u = w /\ op \in Movers) THEN [valid |-> FALSE, vals |-> <<>>]
        ELSE appendLog[u]]

\* the step of a call: its effect r, and the record of the call (of a call that
\* threw, the record keeps the position but not the value or the count passed);
\* ref: the argument was a reference to the element j of the Vector itself
StepWith(op, kind, v, w, index, x, n, path, r, ref, j) ==
    /\ heap' = r.heap
    /\ vec' = r.vec
    /\ bad' = r.bad
    /\ last' = [op |-> op, v |-> v, w |-> w, index |-> index,
                x |-> IF r.thrown = "none" THEN x ELSE 0,
                n |-> IF r.thrown = "none" THEN n ELSE 0,
                path |-> path, outcome |-> r.thrown, touched |-> r.touched,
                ref |-> (r.thrown = "none" /\ ref),
                j |-> IF r.thrown = "none" THEN j ELSE 0]
    /\ appendLog' = NextLog(op, kind, v, w, x, r)
    /\ UNCHANGED <<T, faults, pair>>

Step(op, kind, v, w, index, x, n, path, r) ==
    StepWith(op, kind, v, w, index, x, n, path, r, FALSE, 0)

Call(op, v, w, index, x, n, path, r) == Step(op, "call", v, w, index, x, n, path, r)

\* the path Emplace takes, and the capacity it allocates on the reallocating one
PathOf(v, index) ==
    IF vec[v].size_ = vec[v].data_.capacity_ \/ index = vec[v].data_.capacity_
    THEN "realloc" ELSE "inplace"

GrownCap(v) == IF vec[v].size_ = 0 THEN 1 ELSE vec[v].size_ * 2

CanInsert(v, index) ==
    /\ Usable
    /\ vec[v].alive
    /\ index <= vec[v].size_
    /\ PathOf(v, index) = "realloc" => GrownCap(v) <= CapLimit

DefaultConstruct(v) ==
    /\ Usable /\ v \in Objects /\ ~vec[v].alive
    /\ Call("Vector", v, v, 0, 0, 0, "none",
            Result([Machine(NoFail, NextAddr) EXCEPT !.vec[v] = EmptyVector]))

SizedConstruct(v) ==
    /\ Usable /\ v \in Objects /\ ~vec[v].alive
    /\ \E n \in 0..CapLimit :
           \E r \in Run(LAMBDA m : VectorSized(m, v, n)) :
               Call("VectorSized", v, v, 0, 0, n, "none", r)

CopyConstruct(v) ==
    /\ Usable /\ v \in Objects /\ ~vec[v].alive /\ T.copyable
    /\ \E w \in Vecs :
           /\ vec[w].alive
           /\ \E r \in Run(LAMBDA m : VectorCopy(m, v, w)) :
                  Call("VectorCopy", v, w, 0, 0, 0, "none", r)

MoveConstruct(v) ==
    /\ Usable /\ v \in Objects /\ ~vec[v].alive
    /\ \E w \in Vecs :
           /\ vec[w].alive
           /\ \E r \in Run(LAMBDA m : VectorMove(m, v, w)) :
                  Call("VectorMove", v, w, 0, 0, 0, "none", r)

Destroy(v) ==
    /\ Idle /\ vec[v].alive
    /\ \E r \in Run(LAMBDA m : VectorDtor(m, v)) :
           Call("~Vector", v, v, 0, 0, 0, "none", r)

CopyAssignCall(v) ==
    /\ Usable /\ vec[v].alive /\ T.copyable
    /\ \E w \in Vecs :
           /\ vec[w].alive
           /\ \E r \in Run(LAMBDA m : CopyAssign(m, v, w)) :
                  Call("CopyAssign", v, w, 0, 0, 0,
                       IF v # w /\ vec[w].size_ > vec[v].data_.capacity_
                       THEN "realloc" ELSE "inplace", r)

MoveAssignCall(v) ==
    /\ Usable /\ vec[v].alive
    /\ \E w \in Vecs :
           /\ vec[w].alive
           /\ \E r \in Run(LAMBDA m : MoveAssign(m, v, w)) :
                  Call("MoveAssign", v, w, 0, 0, 0, "none", r)

SwapCall(v) ==
    /\ Usable /\ vec[v].alive
    /\ \E w \in Vecs :
           /\ vec[w].alive
           /\ \E r \in Run(LAMBDA m : Swap(m, v, w)) :
                  Call("Swap", v, w, 0, 0, 0, "none", r)

ReserveCall(v) ==
    /\ Usable /\ vec[v].alive
    /\ \E n \in 0..CapLimit :
           \E r \in Run(LAMBDA m : Reserve(m, v, n)) :
               Call("Reserve", v, v, 0, 0, n,
                    IF n > vec[v].data_.capacity_ THEN "realloc" ELSE "inplace", r)

ResizeCall(v) ==
    /\ Usable /\ vec[v].alive
    /\ \E n \in 0..CapLimit :
           \E r \in Run(LAMBDA m : Resize(m, v, n)) :
               Call("Resize", v, v, 0, 0, n,
                    IF n > vec[v].data_.capacity_ THEN "realloc" ELSE "inplace", r)

PushBackCopyCall(v) ==
    /\ CanInsert(v, vec[v].size_) /\ T.copyable
    /\ \E x \in Values :
           \E r \in Run(LAMBDA m : PushBackCopy(m, v, ByValue(x))) :
               Step("Emplace", AppendCall, v, v, vec[v].size_, x, 0, PathOf(v, vec[v].size_), r)

PushBackMoveCall(v) ==
    /\ CanInsert(v, vec[v].size_)
    /\ \E x \in Values :
           \E r \in Run(LAMBDA m : PushBackMove(m, v, ByValue(x))) :
               Step("Emplace", AppendCall, v, v, vec[v].size_, x, 0, PathOf(v, vec[v].size_), r)

EmplaceBackCall(v) ==
    /\ CanInsert(v, vec[v].size_)
    /\ \E x \in Values :
           \E r \in Run(LAMBDA m : EmplaceBack(m, v, ByValue(x), TRUE)) :
               Step("Emplace", AppendCall, v, v, vec[v].size_, x, 0, PathOf(v, vec[v].size_), r)

PopBackCall(v) ==
    /\ Usable /\ vec[v].alive /\ vec[v].size_ > 0
    /\ \E r \in Run(LAMBDA m : PopBack(m, v)) :
           Call("PopBack", v, v, 0, 0, 0, "none", r)

EmplaceCall(v) ==
    \E index \in 0..CapLimit, x \in Values :
        /\ CanInsert(v, index)
        /\ \E r \in Run(LAMBDA m : Emplace(m, v, index, ByValue(x), TRUE)) :
               Step("Emplace", InsertCall, v, v, index, x, 0, PathOf(v, index), r)

InsertCopyCall(v) ==
    \E index \in 0..CapLimit, x \in Values :
        /\ CanInsert(v, index) /\ T.copyable
        /\ \E r \in Run(LAMBDA m : InsertCopy(m, v, index, ByValue(x))) :
               Step("Emplace", InsertCall, v, v, index, x, 0, PathOf(v, index), r)

InsertMoveCall(v) ==
    \E index \in 0..CapLimit, x \in Values :
        /\ CanInsert(v, index)
        /\ \E r \in Run(LAMBDA m : InsertMove(m, v, index, ByValue(x))) :
               Step("Emplace", InsertCall, v, v, index, x, 0, PathOf(v, index), r)

\* v.PushBack(v[j]) and v.Insert(v.begin() + index, v[j]): the argument is a
\* const reference to an element of v
PushBackElementCall(v) ==
    /\ CanInsert(v, vec[v].size_) /\ T.copyable
    /\ \E j \in 0..(CapLimit - 1) :
           /\ j < vec[v].size_
           /\ \E r \in Run(LAMBDA m : PushBackCopy(m, v, ByRef(j))) :
                  StepWith("Emplace", AppendCall, v, v, vec[v].size_,
                           heap[vec[v].data_.buffer_][j + 1], 0,
                           PathOf(v, vec[v].size_), r, TRUE, j)

InsertElementCall(v) ==
    \E index \in 0..CapLimit, j \in 0..(CapLimit - 1) :
        /\ CanInsert(v, index) /\ T.copyable
        /\ j < vec[v].size_
        /\ \E r \in Run(LAMBDA m : InsertCopy(m, v, index, ByRef(j))) :
               StepWith("Emplace", InsertCall, v, v, index,
                        heap[vec[v].data_.buffer_][j + 1], 0, PathOf(v, index), r, TRUE, j)

EraseCall(v) ==
    /\ Usable /\ vec[v].alive
    /\ \E index \in 0..CapLimit :
           /\ index < vec[v].size_
           /\ \E r \in Run(LAMBDA m : Erase(m, v, index)) :
                  Call("Erase", v, v, index, 0, 0, "none", r)

\* the caller goes on after a call
Return ==
    /\ last # NoCall
    /\ last' = NoCall
    /\ UNCHANGED <<heap, vec, T, faults, pair, bad, appendLog>>

\* the calls on one object (an assignment or a swap names a second object,
\* which may be the same one)
Calls(v) ==
        \/ DefaultConstruct(v)
        \/ SizedConstruct(v)
        \/ Destroy(v)
        \/ CopyAssignCall(v)
        \/ MoveAssignCall(v)
        \/ SwapCall(v)
        \/ ReserveCall(v)
        \/ ResizeCall(v)
        \/ PushBackCopyCall(v)
        \/ PushBackMoveCall(v)
        \/ EmplaceBackCall(v)
        \/ PopBackCall(v)
        \/ EmplaceCall(v)
        \/ InsertCopyCall(v)
        \/ InsertMoveCall(v)
        \/ PushBackElementCall(v)
        \/ InsertElementCall(v)
        \/ EraseCall(v)

Next == Return \/ \E v \in Vecs : Calls(v)

\* and the constructions of one object from another
NextPair ==
    \/ Next
    \/ \E v \in Vecs : CopyConstruct(v) \/ MoveConstruct(v)

Spec == Init /\ [][Next]_vars

SpecPair == InitPair /\ [][NextPair]_vars

SpecOk == InitOk /\ [][NextPair]_vars

\* ---- what a caller observes of the Vector v
Elements(v) == [i \in 1..vec[v].size_ |-> heap[vec[v].data_.buffer_][i]]

Block(v) == IF vec[v].data_.buffer_ = nullptr THEN <<>> ELSE heap[vec[v].data_.buffer_]

InsertAt(s, i, x) == SubSeq(s, 1, i) \o <<x>> \o SubSeq(s, i + 1, Len(s))

RemoveAt(s, i) == SubSeq(s, 1, i) \o SubSeq(s, i + 2, Len(s))

Returned(op) == last.op = op /\ last.outcome = "none"

\* C1: in every state reached by calls that all complete without failure,
\* 0 <= Size() <= Capacity(), exactly the slots [0, Size()) of the owned block
\* hold live elements and the slots [Size(), Capacity()) hold none.
C1_LiveSlotsAreTheFirstSize ==
    ~faults =>
        \A v \in Vecs :
            vec[v].alive =>
                /\ 0 <= vec[v].size_
                /\ vec[v].size_ <= vec[v].data_.capacity_
                /\ Len(Block(v)) = vec[v].data_.capacity_
                /\ \A i \in 1..vec[v].data_.capacity_ :
                       IF i <= vec[v].size_ THEN Block(v)[i] # Raw ELSE Block(v)[i] = Raw

C1_Witness ==
    /\ ~faults
    /\ Returned("Erase")
    /\ vec["a"].size_ = 2
    /\ vec["a"].data_.capacity_ = 4

\* C2: across any sequence of calls, failing ones included, no element is
\* destroyed twice, no destructor runs on a slot without a live element, and no
\* live element is left in a block when the block is released.
C2_NoLifetimeViolation == bad = {}

\* C3: a reallocating Emplace/Insert/PushBack in which an element operation
\* throws leaves the Vector as it was: same size, capacity, block and values,
\* all of its elements live.
C3_ReallocatingInsertIsStrong ==
    [][\A u \in Vecs :
           (last'.op = "Emplace" /\ last'.v = u /\ last'.path = "realloc"
                                /\ last'.outcome = "element")
           => (vec' = vec /\ Block(u)' = Block(u))]_vars

\* C4 as claimed: a reallocating Reserve in which an element constructor throws
\* leaves the Vector as it was, for every element type.
C4_ReserveIsStrongForEveryType ==
    [][\A u \in Vecs :
           (last'.op = "Reserve" /\ last'.v = u /\ last'.outcome = "element")
           => (vec' = vec /\ Block(u)' = Block(u))]_vars

\* C4 as amended: a reallocating Reserve in which an element constructor throws
\* leaves the Vector as it was (same size, capacity and element values), for
\* every element type that has a copy constructor or a noexcept move
\* constructor.
C4_ReserveIsStrongWhenCopyable ==
    [][\A u \in Vecs :
           (last'.op = "Reserve" /\ last'.v = u /\ last'.outcome = "element"
                                /\ (T.copyable \/ T.nothrow_move))
           => (vec' = vec /\ Block(u)' = Block(u))]_vars

C4_Witness ==
    /\ last.op = "Reserve"
    /\ last.outcome = "element"
    /\ T.copyable
    /\ vec["a"].size_ = 3
\* C5 as claimed: moving a Vector into another one, by move construction or by
\* move assignment whatever the destination held, leaves the source with
\* Size() == 0 and the destination with the source's former elements, and runs
\* no element operation.
C5_MoveLeavesSourceEmpty ==
    [][\A u, w \in Vecs :
           (last'.op \in {"VectorMove", "MoveAssign"} /\ last'.v = u /\ last'.w = w
                /\ u # w)
           => /\ vec'[w].size_ = 0
              /\ Elements(u)' = Elements(w)
              /\ ~last'.touched]_vars

\* C5 as amended: move construction leaves the source with Size() == 0 and the
\* destination with the source's former elements; move assignment from another
\* Vector leaves the destination with the source's former elements and the
\* source with the destination's former size and elements; neither runs an
\* element operation.
C5_MoveTransfersOrExchanges ==
    [][\A u, w \in Vecs :
           (last'.op \in {"VectorMove", "MoveAssign"} /\ last'.v = u /\ last'.w = w
                /\ u # w)
           => /\ Elements(u)' = Elements(w)
              /\ vec'[u].data_ = vec[w].data_
              /\ vec'[w].size_ = (IF last'.op = "VectorMove" THEN 0 ELSE vec[u].size_)
              /\ Elements(w)' = (IF last'.op = "VectorMove" THEN <<>> ELSE Elements(u))
              /\ heap' = heap
              /\ ~last'.touched]_vars

C5_Witness ==
    /\ Returned("MoveAssign")
    /\ last.v = "a"
    /\ last.w = "b"
    /\ vec["a"].size_ = 2
    /\ vec["b"].size_ = 1

\* C6: a successful Emplace/Insert of x at index i, on either path, yields the
\* former elements [0, i), then x at i, then the former elements from i on;
\* Size() grows by exactly 1 and slot i of the block (the iterator returned)
\* holds x.
C6_EmplaceInsertsAtIndex ==
    [][\A u \in Vecs :
           (last'.op = "Emplace" /\ last'.v = u /\ last'.outcome = "none")
           => /\ Elements(u)' = InsertAt(Elements(u), last'.index, last'.x)
              /\ vec'[u].size_ = vec[u].size_ + 1
              /\ Block(u)'[last'.index + 1] = last'.x]_vars

C6_Witness ==
    /\ Returned("Emplace")
    /\ last.path = "inplace"
    /\ last.index = 1
    /\ last.x = 2
    /\ vec["a"].size_ = 4

\* C7: a successful Erase at index i < Size() removes exactly the element at i,
\* keeps the others in order, lowers Size() by exactly 1 and leaves the capacity
\* and the block address as they were.
C7_EraseRemovesAtIndex ==
    [][\A u \in Vecs :
           (last'.op = "Erase" /\ last'.v = u /\ last'.outcome = "none")
           => /\ Elements(u)' = RemoveAt(Elements(u), last'.index)
              /\ vec'[u].size_ = vec[u].size_ - 1
              /\ vec'[u].data_ = vec[u].data_]_vars

C7_Witness ==
    /\ Returned("Erase")
    /\ last.index = 1
    /\ vec["a"].size_ = 3
    /\ Elements("a")[1] # Elements("a")[2]

\* C8: after N successful PushBack/EmplaceBack calls on a Vector constructed
\* empty, Size() is N, Capacity() >= Size(), and element k is the k-th value
\* appended.
C8_AppendsInOrder ==
    \A u \in Vecs :
        appendLog[u].valid =>
            /\ vec[u].alive
            /\ vec[u].size_ = Len(appendLog[u].vals)
            /\ vec[u].data_.capacity_ >= vec[u].size_
            /\ Elements(u) = appendLog[u].vals

C8_Witness ==
    /\ appendLog["a"].valid
    /\ Len(appendLog["a"].vals) = 3
    /\ appendLog["a"].vals[1] # appendLog["a"].vals[2]
    /\ appendLog["a"].vals[2] # appendLog["a"].vals[3]

\* C9: a successful copy construction or copy assignment gives the destination
\* the size and elements of the source and leaves the source as it was; two
\* Vectors never own the same block; and a call on one Vector, failing or not,
\* leaves every other Vector (but the one it is moved from or swapped with) with
\* its size, capacity, block and elements unchanged.
C9_CopiesAreIndependent ==
    /\ [](\A u, w \in Vecs :
              (u # w /\ vec[u].alive /\ vec[w].alive /\ vec[u].data_.buffer_ # nullptr)
              => vec[u].data_.buffer_ # vec[w].data_.buffer_)
    /\ [][\A u, w \in Vecs :
              /\ (last'.op \in {"VectorCopy", "CopyAssign"} /\ last'.v = u /\ last'.w = w
                      /\ last'.outcome = "none")
                 => (Elements(u)' = Elements(w) /\ vec'[u].size_ = vec[w].size_)
              /\ (last' # NoCall /\ last'.v = u /\ w # u
                      /\ ~(last'.w = w /\ last'.op \in Movers))
                 => (vec'[w] = vec[w] /\ Block(w)' = Block(w))]_vars

C9_Witness ==
    /\ Returned("CopyAssign")
    /\ last.v = "b"
    /\ last.w = "a"
    /\ last.path = "inplace"
    /\ vec["a"].size_ = 2
    /\ Elements("a")[1] # Elements("a")[2]

\* C10: when operator new fails in Reserve, in a reallocating
\* PushBack/Emplace/Insert, in a growing Resize or in copy assignment, no
\* element operation has run and every Vector is as it was before the call.
C10_AllocationFailureChangesNothing ==
    [][(last'.outcome = "bad_alloc"
            /\ last'.op \in {"Reserve", "Emplace", "Resize", "CopyAssign"})
        => (vec' = vec /\ heap' = heap /\ bad' = bad /\ ~last'.touched)]_vars

C10_Witness ==
    /\ last.outcome = "bad_alloc"
    /\ last.op = "Resize"
    /\ vec["a"].size_ = 1

Defaults(n) == [i \in 1..n |-> DefaultValue]

\* C11: a successful Resize(n) leaves Size() = n; when n >= Size() the former
\* elements are unchanged and followed by n - Size() value-constructed ones;
\* when n < Size() the first n elements are unchanged, exactly the slots from n
\* on hold no element any more, and the capacity and the block address are as
\* they were.
C11_ResizeSetsSize ==
    [][\A u \in Vecs :
           (last'.op = "Resize" /\ last'.v = u /\ last'.outcome = "none")
           => /\ vec'[u].size_ = last'.n
              /\ last'.n >= vec[u].size_
                     => Elements(u)' = Elements(u) \o Defaults(last'.n - vec[u].size_)
              /\ last'.n < vec[u].size_
                     => /\ Elements(u)' = SubSeq(Elements(u), 1, last'.n)
                        /\ vec'[u].data_ = vec[u].data_
                        /\ Block(u)' = [i \in 1..Len(Block(u)) |->
                                           IF i <= last'.n THEN Block(u)[i] ELSE Raw]]_vars

C11_Witness ==
    /\ Returned("Resize")
    /\ last.path = "realloc"
    /\ last.n = 4
    /\ Elements("a")[1] = 2
    /\ Elements("a")[2] = 1

\* C12: Reserve(n) with n <= Capacity() changes nothing: size, capacity, block
\* address and every slot of every block are as before the call. A successful
\* Reserve(n) with n > Capacity() leaves Capacity() = n exactly, Size() and the
\* elements as they were, and no element in the slots from Size() on.
C12_ReserveSetsCapacity ==
    [][\A u \in Vecs :
           (last'.op = "Reserve" /\ last'.v = u /\ last'.outcome = "none")
           => IF last'.n <= vec[u].data_.capacity_
              THEN vec' = vec /\ heap' = heap /\ ~last'.touched
              ELSE /\ vec'[u].data_.capacity_ = last'.n
                   /\ Len(Block(u)') = last'.n
                   /\ vec'[u].size_ = vec[u].size_
                   /\ Elements(u)' = Elements(u)
                   /\ \A i \in (vec[u].size_ + 1)..last'.n : Block(u)'[i] = Raw]_vars

C12_Witness ==
    /\ Returned("Reserve")
    /\ last.path = "realloc"
    /\ last.n = 3
    /\ vec["a"].size_ = 2
    /\ Elements("a")[1] = 1
    /\ Elements("a")[2] = 2

Max(x, y) == IF x > y THEN x ELSE y

RECURSIVE Pow2From(_, _)
Pow2From(p, k) == IF p >= k THEN p ELSE Pow2From(2 * p, k)

\* the smallest power of two >= k
Pow2Ceil(k) == Pow2From(1, k)

\* C13: a successful Emplace/Insert/PushBack/EmplaceBack that reallocates (the
\* block address changes) leaves Capacity() = max(1, 2 * former Size()); after
\* k >= 1 appends to a Vector constructed empty, Capacity() is the smallest
\* power of two >= k; and an append that finds Size() < Capacity() leaves the
\* capacity and the block address as they were.
C13_GrowthDoubles ==
    /\ [](\A u \in Vecs :
              (appendLog[u].valid /\ Len(appendLog[u].vals) >= 1)
              => vec[u].data_.capacity_ = Pow2Ceil(Len(appendLog[u].vals)))
    /\ [][\A u \in Vecs :
              (last'.op = "Emplace" /\ last'.v = u /\ last'.outcome = "none")
              => /\ (last'.path = "realloc" \/ vec'[u].data_.buffer_ # vec[u].data_.buffer_)
                     => vec'[u].data_.capacity_ = Max(1, 2 * vec[u].size_)
                 /\ (last'.index = vec[u].size_ /\ vec[u].size_ < vec[u].data_.capacity_)
                     => vec'[u].data_ = vec[u].data_]_vars

C13_Witness ==
    /\ Returned("Emplace")
    /\ last.path = "realloc"
    /\ appendLog["a"].valid
    /\ Len(appendLog["a"].vals) = 3
    /\ vec["a"].data_.capacity_ = 4

\* C14: a copy assignment whose source is larger than the capacity of the
\* destination and in which building the temporary copy fails (operator new or
\* an element copy throws) leaves the destination and the source as they were
\* (size, capacity, block address, every slot), leaves no block of the temporary
\* allocated and no element of it alive, and commits no lifetime violation.
C14_FailedCopyAssignChangesNothing ==
    [][\A u, w \in Vecs :
           (last'.op = "CopyAssign" /\ last'.v = u /\ last'.w = w
                /\ vec[w].size_ > vec[u].data_.capacity_ /\ last'.outcome # "none")
           => /\ vec' = vec
              /\ heap' = heap
              /\ bad' = bad]_vars

C14_Witness ==
    /\ last.op = "CopyAssign"
    /\ last.outcome = "element"
    /\ last.path = "realloc"
    /\ last.v = "b"
    /\ vec["a"].size_ = 2
    /\ vec["b"].size_ = 1
    /\ vec["b"].data_.capacity_ = 1

\* the RawMemory objects (the data_ of the Vectors alive) that hold block a
Owners(a) == {v \in Vecs \cup {Temp} : vec[v].alive /\ vec[v].data_.buffer_ = a}

\* C15: between any two calls, failing ones included, every allocated block is
\* held by exactly one RawMemory, whose capacity is the size of the block; a
\* RawMemory holds no block exactly when its capacity is 0; no RawMemory holds a
\* released block and no block is released twice; and move construction leaves
\* the RawMemory of the source empty and gives its block to the new Vector.
C15_BlocksHaveOneOwner ==
    /\ [](/\ \A a \in Addrs :
                 heap[a] # <<>> =>
                     /\ Cardinality(Owners(a)) = 1
                     /\ \A v \in Owners(a) : vec[v].data_.capacity_ = Len(heap[a])
           /\ \A v \in Vecs \cup {Temp} :
                 /\ vec[v].data_.capacity_ = 0 <=> vec[v].data_.buffer_ = nullptr
                 /\ vec[v].data_.buffer_ # nullptr =>
                        (vec[v].alive /\ heap[vec[v].data_.buffer_] # <<>>)
           /\ "double_free" \notin bad)
    /\ [][\A u, w \in Vecs :
              (last'.op = "VectorMove" /\ last'.v = u /\ last'.w = w)
              => /\ vec'[w].data_ = EmptyRawMemory
                 /\ vec'[u].data_ = vec[w].data_
                 /\ heap' = heap]_vars

C15_Witness ==
    /\ Returned("VectorMove")
    /\ last.v = "b"
    /\ last.w = "a"
    /\ vec["a"].alive
    /\ vec["a"].data_ = EmptyRawMemory
    /\ vec["b"].data_.capacity_ = 2
    /\ vec["b"].size_ = 1

\* C16: a move assignment a = std::move(b) with a and b distinct exchanges the
\* two Vectors: a ends with the size, capacity and block address b had, b with
\* those a had, every slot of every block is as it was and no element operation
\* ran; a self move assignment changes nothing.
C16_MoveAssignExchanges ==
    [][\A u, w \in Vecs :
           (last'.op = "MoveAssign" /\ last'.v = u /\ last'.w = w)
           => /\ vec'[u] = vec[w]
              /\ vec'[w] = vec[u]
              /\ \A o \in (Vecs \cup {Temp}) \ {u, w} : vec'[o] = vec[o]
              /\ heap' = heap
              /\ bad' = bad
              /\ ~last'.touched
              /\ last'.outcome = "none"]_vars

C16_Witness ==
    /\ Returned("MoveAssign")
    /\ last.v = "b"
    /\ last.w = "a"
    /\ vec["a"].size_ = 1
    /\ vec["a"].data_.capacity_ = 2
    /\ vec["b"].size_ = 1
    /\ vec["b"].data_.capacity_ = 1
    /\ Elements("a") # Elements("b")

\* C17: a copy assignment whose source fits in the capacity of the destination
\* leaves the capacity and the block address of the destination as they were,
\* whether it returns or throws; when it returns, the destination has the size
\* and the elements of the source; when an element copy throws, the size of
\* the destination is what it was and exactly the slots [0, size) of its block
\* hold an element.
C17_InPlaceCopyAssignKeepsLength ==
    [][\A u, w \in Vecs :
           (last'.op = "CopyAssign" /\ last'.v = u /\ last'.w = w
                /\ vec[w].size_ <= vec[u].data_.capacity_)
           => /\ vec'[u].data_ = vec[u].data_
              /\ last'.outcome = "none"
                     => (vec'[u].size_ = vec[w].size_ /\ Elements(u)' = Elements(w))
              /\ last'.outcome # "none"
                     => /\ last'.outcome = "element"
                        /\ vec'[u].size_ = vec[u].size_
                        /\ \A i \in 1..vec[u].data_.capacity_ :
                               Block(u)'[i] # Raw <=> i <= vec[u].size_]_vars

C17_Witness ==
    /\ last.op = "CopyAssign"
    /\ last.outcome = "element"
    /\ last.path = "inplace"
    /\ last.v = "b"
    /\ last.w = "a"
    /\ vec["a"].size_ = 2
    /\ vec["b"].size_ = 1
    /\ vec["b"].data_.capacity_ = 2

\* C18: in every state, for every position index <= Size() of a Vector,
\* index = Capacity() implies Size() = Capacity(); so Emplace takes the
\* reallocating path exactly when the Vector is full: a successful insert
\* changes the block address exactly when Size() = Capacity() before the call,
\* and an insert into a Vector with Size() < Capacity(), returning or throwing,
\* leaves the capacity and the block address as they were and allocates nothing.
C18_ReallocatesExactlyWhenFull ==
    /\ [](\A u \in Vecs : \A index \in 0..vec[u].size_ :
              index = vec[u].data_.capacity_ => vec[u].size_ = vec[u].data_.capacity_)
    /\ [][\A u \in Vecs :
              (last'.op = "Emplace" /\ last'.v = u)
              => /\ last'.path = "realloc" <=> vec[u].size_ = vec[u].data_.capacity_
                 /\ last'.outcome = "none"
                        => (vec'[u].data_.buffer_ # vec[u].data_.buffer_
                               <=> vec[u].size_ = vec[u].data_.capacity_)
                 /\ vec[u].size_ < vec[u].data_.capacity_
                        => /\ vec'[u].data_ = vec[u].data_
                           /\ last'.outcome # "bad_alloc"
                           /\ \A a \in Addrs : heap'[a] = <<>> <=> heap[a] = <<>>]_vars

C18_Witness ==
    /\ Returned("Emplace")
    /\ last.path = "inplace"
    /\ last.index = 2
    /\ vec["a"].size_ = 3
    /\ vec["a"].data_.capacity_ = 4

\* C19: a successful v.Insert(v.begin() + index, v[j]) or v.PushBack(v[j]), whose
\* argument is a const reference to the element j of v itself, inserts at index
\* the value v[j] had before the call and keeps the other elements, shifted, on
\* the reallocating path, on the in-place path in the middle and on the
\* in-place path at the end.
C19_InsertOfOwnElement ==
    [][\A u \in Vecs :
           (last'.op = "Emplace" /\ last'.v = u /\ last'.ref /\ last'.outcome = "none")
           => /\ Elements(u)' = InsertAt(Elements(u), last'.index, Elements(u)[last'.j + 1])
              /\ vec'[u].size_ = vec[u].size_ + 1]_vars

C19_Witness ==
    /\ Returned("Emplace")
    /\ last.ref
    /\ last.path = "inplace"
    /\ last.index = 0
    /\ last.j = 1
    /\ vec["a"].size_ = 3
    /\ Elements("a")[1] = 2
    /\ Elements("a")[2] = 1
    /\ Elements("a")[3] = 2

\* the calls on a Vector that never lower its capacity
Growers == {"Reserve", "Resize", "Emplace", "Erase", "PopBack", "CopyAssign"}

\* C20: a call of Reserve, Resize, PushBack, EmplaceBack, Emplace, Insert,
\* Erase, PopBack or copy assignment on a Vector, returning or throwing, never
\* lowers its Capacity(); Erase, PopBack and a Resize that does not grow leave
\* the capacity and the block address as they were.
C20_CapacityNeverDecreases ==
    [][\A u \in Vecs :
           (last'.op \in Growers /\ last'.v = u)
           => /\ vec'[u].data_.capacity_ >= vec[u].data_.capacity_
              /\ (\/ last'.op \in {"Erase", "PopBack"}
                  \/ (last'.op = "Resize" /\ last'.outcome = "none"
                          /\ last'.n <= vec[u].size_))
                     => vec'[u].data_ = vec[u].data_]_vars

C20_Witness ==
    /\ Returned("PopBack")
    /\ last.v = "b"
    /\ vec["b"].size_ = 0
    /\ vec["b"].data_.capacity_ = 2
    /\ vec["a"].size_ = 1

====
